---------------------------- MODULE Spec2Model ----------------------------
(***************************************************************************)
(* Model of grpc_common/channel_factory.py: create_grpc_channel and its    *)
(* helpers.  Every Python function is a frame on a per-thread call stack;  *)
(* every action is one step of one function.  The outside world (HTTP      *)
(* endpoint, secret storage backend, token exchange service, ambient       *)
(* credentials) answers nondeterministically.                              *)
(***************************************************************************)
EXTENDS Integers, Sequences, FiniteSets, TLC

\* Number of caller threads of the process.
MaxThreads == 2

VARIABLES
    stack,      \* per thread: the call stack, innermost frame first
    call,       \* per thread: the top-level invocation (function and arguments)
    outcome,    \* per thread: how the top-level invocation ended
    trace,      \* per thread: the observable steps of the current invocation
    cache,      \* the LRUCache(maxsize=1) behind _gcp_secret_client
    created     \* SecretManagerServiceClient instances constructed so far

vars == <<stack, call, outcome, trace, cache, created>>

Threads == 1..MaxThreads

-----------------------------------------------------------------------------
(* Python values *)

\* Python's None where a str is optional.
None == "<None>"

\* bool(x) for an Optional[str]: None and '' are falsy.
Truthy(x) == x # None /\ x # ""

\* f'{x}' for an Optional[str].
Format(x) == IF x = None THEN "None" ELSE x

\* s[m-1:n] of Python: the characters m..n, cut to the string
Slice(s, m, n) ==
    IF m > n \/ m > Len(s) \/ n < 1 THEN ""
    ELSE SubSeq(s, IF m < 1 THEN 1 ELSE m, IF n > Len(s) THEN Len(s) ELSE n)

\* str.startswith
StartsWith(s, p) == Len(s) >= Len(p) /\ Slice(s, 1, Len(p)) = p

\* the `in` operator on str
Contains(s, p) == \E i \in 1..(Len(s) - Len(p) + 1) : Slice(s, i, i + Len(p) - 1) = p

\* str.find for a set of one-character strings: index of the first hit, 0 if none
FindAny(s, cs) ==
    LET hits == {i \in 1..Len(s) : Slice(s, i, i) \in cs}
    IN  IF hits = {} THEN 0 ELSE CHOOSE i \in hits : \A j \in hits : i <= j

\* str.rfind for one character: index of the last hit, 0 if none
RFind(s, c) ==
    LET hits == {i \in 1..Len(s) : Slice(s, i, i) = c}
    IN  IF hits = {} THEN 0 ELSE CHOOSE i \in hits : \A j \in hits : i >= j

\* strip forgotten: the string as it is
strip_nothing(s, c) == s

\* str.strip(c) for a one-character c
strip(s, c) ==
    LET keep == {i \in 1..Len(s) : Slice(s, i, i) # c}
    IN  IF keep = {} THEN ""
        ELSE Slice(s, CHOOSE i \in keep : \A j \in keep : i <= j,
                       CHOOSE i \in keep : \A j \in keep : i >= j)

UpperCase == <<"A","B","C","D","E","F","G","H","I","J","K","L","M",
               "N","O","P","Q","R","S","T","U","V","W","X","Y","Z">>
LowerCase == <<"a","b","c","d","e","f","g","h","i","j","k","l","m",
               "n","o","p","q","r","s","t","u","v","w","x","y","z">>
Digits == <<"0","1","2","3","4","5","6","7","8","9">>

RECURSIVE lower(_)
\* str.lower
lower(s) ==
    IF s = "" THEN ""
    ELSE LET c == Slice(s, 1, 1)
             up == {i \in 1..26 : UpperCase[i] = c}
         IN  (IF up = {} THEN c ELSE LowerCase[CHOOSE i \in up : TRUE])
             \o lower(Slice(s, 2, Len(s)))

IsDigits(s) == s # "" /\ \A i \in 1..Len(s) : \E d \in 1..10 : Digits[d] = Slice(s, i, i)

RECURSIVE int(_)
\* int(s) for a string of decimal digits
int(s) ==
    IF s = "" THEN 0
    ELSE 10 * int(Slice(s, 1, Len(s) - 1))
         + (CHOOSE d \in 0..9 : Digits[d + 1] = Slice(s, Len(s), Len(s)))

-----------------------------------------------------------------------------
(* urllib.parse.urlparse, as far as create_grpc_channel reads its result:  *)
(* scheme, hostname and port (no IPv6 brackets, no zone identifiers).      *)

SchemeChars == {UpperCase[i] : i \in 1..26} \cup {LowerCase[i] : i \in 1..26}
               \cup {Digits[i] : i \in 1..10} \cup {"+", "-", "."}
Letters == {UpperCase[i] : i \in 1..26} \cup {LowerCase[i] : i \in 1..26}

\* urlparse(url): <<scheme, netloc>>; the scheme is lower-cased, the netloc is
\* what follows '//' up to the first '/', '?' or '#'.
urlparse(url) ==
    LET i == FindAny(url, {":"})
        hasScheme == /\ i > 1
                     /\ Slice(url, 1, 1) \in Letters
                     /\ \A j \in 1..(i - 1) : Slice(url, j, j) \in SchemeChars
        scheme == IF hasScheme THEN lower(Slice(url, 1, i - 1)) ELSE ""
        rest == IF hasScheme THEN Slice(url, i + 1, Len(url)) ELSE url
        after == Slice(rest, 3, Len(rest))
        delim == FindAny(after, {"/", "?", "#"})
        netloc == IF Slice(rest, 1, 2) = "//"
                  THEN (IF delim = 0 THEN after ELSE Slice(after, 1, delim - 1))
                  ELSE ""
    IN  [scheme |-> scheme, netloc |-> netloc]

\* ParseResult._hostinfo: <<hostname text, port text or None>>
hostinfo(parsed_url) ==
    LET at == RFind(parsed_url.netloc, "@")
        hi == Slice(parsed_url.netloc, at + 1, Len(parsed_url.netloc))
        colon == FindAny(hi, {":"})
        host == IF colon = 0 THEN hi ELSE Slice(hi, 1, colon - 1)
        port == IF colon = 0 THEN "" ELSE Slice(hi, colon + 1, Len(hi))
    IN  [hostname |-> host, port |-> IF port = "" THEN None ELSE port]

\* ParseResult.hostname: lower-cased, None when empty
hostname(parsed_url) ==
    LET h == hostinfo(parsed_url).hostname
    IN  IF h = "" THEN None ELSE lower(h)

\* ParseResult.port raises ValueError for a port that is no number in 0..65535
port_raises(parsed_url) ==
    LET p == hostinfo(parsed_url).port
    IN  p # None /\ (~IsDigits(p) \/ int(p) > 65535)

\* ParseResult.port as an integer; NoPort stands for None
NoPort == -1
port(parsed_url) ==
    LET p == hostinfo(parsed_url).port
    IN  IF p = None THEN NoPort ELSE int(p)

\* lines 124-126: the gRPC endpoint has the host and, when truthy, the port
grpc_endpoint_of(parsed_url) ==
    IF port(parsed_url) # NoPort /\ port(parsed_url) # 0
    THEN Format(hostname(parsed_url)) \o ":" \o ToString(port(parsed_url))
    ELSE Format(hostname(parsed_url))

\* line 128: the audience has the scheme and the host, not the port
endpoint_to_authenticate_of(parsed_url) ==
    parsed_url.scheme \o "://" \o Format(hostname(parsed_url))

-----------------------------------------------------------------------------
(* Module constants of channel_factory.py *)

_PB2_DESCRIPTOR_ATTR_NAME == "DESCRIPTOR"
_GRPC_CHANNEL_OPTIONS_GRPC_SERVICE_CONFIG == "grpc.service_config"
_RETRY_MAX_ATTEMPTS == 5
_RETRY_INITIAL_BACKOFF_IN_SEC == 1
_RETRY_MAX_BACKOFF_IN_SEC == 5
\* 1.5, held in tenths
_RETRY_BACKOFF_MULTIPLIER == 15
_RETRY_RETRYABLE_STATUS_CODES == <<"RESOURCE_EXHAUSTED", "UNAVAILABLE">>
_API_KEY_MD_KEY_NAME == "x-api-key"
_JWT_DEFAULT_CREDS_SCOPE == "https://www.googleapis.com/auth/cloud-platform"
_JWT_SA_CREDENTIALS_URL_TMPL(email) ==
    "https://iamcredentials.googleapis.com/v1/projects/-/serviceAccounts/"
    \o email \o ":generateIdToken"

\* _get_jwt_token_url
_get_jwt_token_url(client_service_account_email) ==
    _JWT_SA_CREDENTIALS_URL_TMPL(client_service_account_email)

-----------------------------------------------------------------------------
(* The retry options document and its serialization *)

\* How _create_retry_options ends for a validated module: the DESCRIPTOR
\* attribute is read with a None default; a falsy one raises RuntimeError, a
\* truthy object without .package raises AttributeError.
retry_options_raises(pb2_module) ==
    IF ~pb2_module.has_DESCRIPTOR \/ pb2_module.DESCRIPTOR.kind = "None"
    THEN "RuntimeError"
    ELSE IF pb2_module.DESCRIPTOR.kind # "FileDescriptor" THEN "AttributeError"
    ELSE "no"

\* The service names collected in reverse of the declaration order.
retry_options_of_reversed(module_desc) ==
    [name |-> [i \in 1..Len(module_desc.services_by_name) |->
                 [service |-> module_desc.package \o "." \o
                    module_desc.services_by_name[Len(module_desc.services_by_name) + 1 - i]]],
     retryPolicy |->
        [maxAttempts |-> _RETRY_MAX_ATTEMPTS,
         initialBackoff |-> ToString(_RETRY_INITIAL_BACKOFF_IN_SEC) \o "s",
         maxBackoff |-> ToString(_RETRY_MAX_BACKOFF_IN_SEC) \o "s",
         backoffMultiplier |-> _RETRY_BACKOFF_MULTIPLIER,
         retryableStatusCodes |-> _RETRY_RETRYABLE_STATUS_CODES]]

\* lines 201-212: one {'service': package.name} per declared service, in the
\* order of services_by_name, and the fixed retry policy
retry_options_of(module_desc) ==
    [name |-> [i \in 1..Len(module_desc.services_by_name) |->
                 [service |-> module_desc.package \o "." \o module_desc.services_by_name[i]]],
     retryPolicy |->
        [maxAttempts |-> _RETRY_MAX_ATTEMPTS,
         initialBackoff |-> ToString(_RETRY_INITIAL_BACKOFF_IN_SEC) \o "s",
         maxBackoff |-> ToString(_RETRY_MAX_BACKOFF_IN_SEC) \o "s",
         backoffMultiplier |-> _RETRY_BACKOFF_MULTIPLIER,
         retryableStatusCodes |-> _RETRY_RETRYABLE_STATUS_CODES]]

\* json.dumps of a str without characters to escape
json_str(x) == "\"" \o x \o "\""

RECURSIVE json_list(_, _)
\* json.dumps of a list whose items are already serialized
json_list(items, i) ==
    IF i > Len(items) THEN ""
    ELSE (IF i > 1 THEN ", " ELSE "") \o items[i] \o json_list(items, i + 1)

\* json.dumps of a float held in tenths
json_float(tenths) == ToString(tenths \div 10) \o "." \o ToString(tenths % 10)

\* json.dumps(retry_options): keys in insertion order, separators ', ' and ': '
json_dumps(retry_options) ==
    LET names == [i \in 1..Len(retry_options.name) |->
                    "{" \o json_str("service") \o ": "
                        \o json_str(retry_options.name[i].service) \o "}"]
        codes == [i \in 1..Len(retry_options.retryPolicy.retryableStatusCodes) |->
                    json_str(retry_options.retryPolicy.retryableStatusCodes[i])]
        rp == retry_options.retryPolicy
    IN  "{" \o json_str("name") \o ": [" \o json_list(names, 1) \o "], "
            \o json_str("retryPolicy") \o ": {"
            \o json_str("maxAttempts") \o ": " \o ToString(rp.maxAttempts) \o ", "
            \o json_str("initialBackoff") \o ": " \o json_str(rp.initialBackoff) \o ", "
            \o json_str("maxBackoff") \o ": " \o json_str(rp.maxBackoff) \o ", "
            \o json_str("backoffMultiplier") \o ": " \o json_float(rp.backoffMultiplier) \o ", "
            \o json_str("retryableStatusCodes") \o ": [" \o json_list(codes, 1) \o "]}}"

\* line 186: the channel options are one (key, serialized document) pair
channel_options_of(retry_options) ==
    <<  <<_GRPC_CHANNEL_OPTIONS_GRPC_SERVICE_CONFIG, json_dumps(retry_options)>>  >>

-----------------------------------------------------------------------------
(* Credentials *)

\* google.auth.transport.grpc.SslCredentials().ssl_credentials
SslCredentials == [transport |-> "ssl", call_credentials |-> <<>>]

\* grpc.metadata_call_credentials(_api_key_fn): the plugin answers every call
\* with the metadata pair (x-api-key, api_key)
metadata_call_credentials(api_key) ==
    [plugin |-> "_api_key_fn", key |-> _API_KEY_MD_KEY_NAME, value |-> api_key]

\* grpc.access_token_call_credentials(jwt_token)
access_token_call_credentials(jwt_token) ==
    [plugin |-> "AccessTokenAuthMetadataPlugin", key |-> "authorization",
     value |-> "Bearer " \o jwt_token]

\* grpc.composite_channel_credentials(channel_credentials, *call_credentials)
composite_channel_credentials(channel_credentials, call_credentials) ==
    [transport |-> channel_credentials.transport,
     call_credentials |-> channel_credentials.call_credentials \o call_credentials]

\* call_credentials_of with the two appends swapped: bearer token first
call_credentials_of_bearer_first(api_key, jwt_token) ==
    (IF Truthy(jwt_token) THEN <<access_token_call_credentials(jwt_token)>> ELSE <<>>)
    \o (IF Truthy(api_key) THEN <<metadata_call_credentials(api_key)>> ELSE <<>>)

\* lines 332-362: the call credentials, api key first, bearer token second
call_credentials_of(api_key, jwt_token) ==
    (IF Truthy(api_key) THEN <<metadata_call_credentials(api_key)>> ELSE <<>>)
    \o (IF Truthy(jwt_token) THEN <<access_token_call_credentials(jwt_token)>> ELSE <<>>)

\* _create_composite_channel_credentials
_create_composite_channel_credentials(api_key, jwt_token) ==
    LET channel_credentials == SslCredentials
        call_credentials == call_credentials_of(api_key, jwt_token)
    IN  IF Len(call_credentials) > 1
        THEN composite_channel_credentials(channel_credentials, call_credentials)
        ELSE IF Len(call_credentials) = 1
        THEN composite_channel_credentials(channel_credentials, <<call_credentials[1]>>)
        ELSE channel_credentials

\* grpc.secure_channel(target, credentials, options)
secure_channel(target, credentials, options) ==
    [kind |-> "secure", target |-> target, credentials |-> credentials,
     options |-> options]

\* grpc.insecure_channel(target, options): no transport security, no call
\* credentials
insecure_channel(target, options) ==
    [kind |-> "insecure", target |-> target,
     credentials |-> [transport |-> "none", call_credentials |-> <<>>],
     options |-> options]

-----------------------------------------------------------------------------
(* Secret names, payloads, HTTP statuses *)

\* lines 258-263: the shape check of a secret's fully qualified name
secret_fqn_invalid(secret_fqn) ==
    \/ ~Truthy(secret_fqn)
    \/ ~StartsWith(secret_fqn, "projects/")
    \/ ~Contains(secret_fqn, "/secrets/")
    \/ ~Contains(secret_fqn, "/versions/")

\* bytes.decode('UTF-8') raises UnicodeDecodeError: bytes 0xF8..0xFF occur in
\* no UTF-8 sequence (multi-byte sequences are not modelled)
decode_raises(data) == \E i \in 1..Len(data) : data[i] >= 248

\* chr() of the ASCII codes the modelled payloads use
chr(b) ==
    IF b \in 65..90 THEN UpperCase[b - 64]
    ELSE IF b \in 97..122 THEN LowerCase[b - 96]
    ELSE IF b \in 48..57 THEN Digits[b - 47]
    ELSE "?"

RECURSIVE decode(_)
\* bytes.decode('UTF-8') of ASCII bytes
decode(data) ==
    IF data = <<>> THEN "" ELSE chr(Head(data)) \o decode(Tail(data))

\* raise_for_status left out: no status is an error
raise_for_status_never(status_code) == FALSE

\* Response.raise_for_status raises HTTPError for 4xx and 5xx
raise_for_status_raises(status_code) == status_code >= 400 /\ status_code < 600

\* line 174: the probed URL
health_url_of(endpoint_url, health_url_path) ==
    endpoint_url \o "/" \o strip(health_url_path, "/")

-----------------------------------------------------------------------------
(* Inputs the callers supply and answers the outside world gives *)

ServiceUrls ==
    {"", "http://localhost:5000", "https://localhost:5001",
     "https://example.com:8443/some_path", "HTTPS://Example.com:0", "https://h:x"}

\* An object that is no module, a module without DESCRIPTOR, one whose
\* DESCRIPTOR is None, one whose DESCRIPTOR is some object that is no file
\* descriptor, and a generated _pb2 module.
NoDescriptor == [kind |-> "None", package |-> "", services_by_name |-> <<>>]
Pb2Modules ==
    {[is_module |-> FALSE, has_DESCRIPTOR |-> TRUE,
      DESCRIPTOR |-> [kind |-> "FileDescriptor", package |-> "test.v1",
                      services_by_name |-> <<"Greeter">>]],
     [is_module |-> TRUE, has_DESCRIPTOR |-> FALSE, DESCRIPTOR |-> NoDescriptor],
     [is_module |-> TRUE, has_DESCRIPTOR |-> TRUE, DESCRIPTOR |-> NoDescriptor],
     [is_module |-> TRUE, has_DESCRIPTOR |-> TRUE,
      DESCRIPTOR |-> [kind |-> "str", package |-> "", services_by_name |-> <<>>]],
     [is_module |-> TRUE, has_DESCRIPTOR |-> TRUE,
      DESCRIPTOR |-> [kind |-> "FileDescriptor", package |-> "test.v1",
                      services_by_name |-> <<"Greeter", "Health">>]]}

\* For the direct calls of _create_retry_options and _create_channel_options:
\* also a descriptor that declares no service and one with three services
\* declared out of alphabetical order in another package.
DescriptorModules ==
    Pb2Modules \cup
    {[is_module |-> TRUE, has_DESCRIPTOR |-> TRUE,
      DESCRIPTOR |-> [kind |-> "FileDescriptor", package |-> "empty",
                      services_by_name |-> <<>>]],
     [is_module |-> TRUE, has_DESCRIPTOR |-> TRUE,
      DESCRIPTOR |-> [kind |-> "FileDescriptor", package |-> "pkg.v2",
                      services_by_name |-> <<"Zeta", "Alpha", "Mid">>]]}

HealthUrlPaths == {None, "", "/healthz/"}
EndpointUrls == {None, "", "https://example.com:8443"}
ApiKeys == {None, "", "A"}
GoodSecretFqn == "projects/P/secrets/S/versions/V"
SecretFqns ==
    {None, "", GoodSecretFqn, "project/P/secrets/S/versions/V",
     "projects/P/S/versions/V", "projects/P/secrets/S/V",
     "projects/P/versions/V/secrets/S"}
ServiceAccountEmails == {None, "", "sa@p.iam"}
Audiences == {None, "", "https://localhost"}
JwtTokens == {None, "", "T"}

\* requests.get: the connection fails, or a response with a status code
HttpAnswers ==
    {[raises |-> "ConnectionError", status_code |-> 0]}
    \cup {[raises |-> "no", status_code |-> c] : c \in {200, 304, 400, 503}}

\* SecretManagerServiceClient(): constructed, or no ambient credentials
ClientAnswers == {"ok", "DefaultCredentialsError"}

\* access_secret_version: a backend exception, or a payload ("B", "", and
\* bytes that are no UTF-8)
SecretAnswers ==
    {[raises |-> e, data |-> <<>>] : e \in {"PermissionDenied", "NotFound"}}
    \cup {[raises |-> "no", data |-> d] : d \in {<<66>>, <<>>, <<255>>}}

\* google.auth.default
DefaultCredsAnswers == {"ok", "DefaultCredentialsError"}

\* AuthorizedSession.post and Response.json: the transport fails, the body is
\* no JSON, or a JSON object with or without the field 'token'
TokenAnswers ==
    {[raises |-> "TransportError", has_token |-> FALSE, token |-> ""],
     [raises |-> "JSONDecodeError", has_token |-> FALSE, token |-> ""],
     [raises |-> "no", has_token |-> FALSE, token |-> ""],
     [raises |-> "no", has_token |-> TRUE, token |-> ""],
     [raises |-> "no", has_token |-> TRUE, token |-> "T"]}

-----------------------------------------------------------------------------
(* Call stack *)

NoOutcome == [kind |-> "none", val |-> None, exc |-> None, cause |-> None]

Init ==
    /\ stack = [t \in Threads |-> <<>>]
    /\ call = [t \in Threads |-> [fn |-> None]]
    /\ outcome = [t \in Threads |-> NoOutcome]
    /\ trace = [t \in Threads |-> <<>>]
    /\ cache = <<>>
    /\ created = 0

Top(t) == Head(stack[t])

\* thread t is about to run step pc of function fn
At(t, fn, pc) == stack[t] # <<>> /\ Top(t).fn = fn /\ Top(t).pc = pc

\* the running frame moves on
Goto(t, frame) ==
    /\ stack' = [stack EXCEPT ![t] = <<frame>> \o Tail(@)]
    /\ UNCHANGED outcome

\* a call: the callee's frame goes on top of the caller's
CallFn(t, caller, callee) ==
    /\ stack' = [stack EXCEPT ![t] = <<callee, caller>> \o Tail(@)]
    /\ UNCHANGED outcome

\* return v: to the caller's frame, or out of the top-level invocation
Return(t, v) ==
    IF Len(stack[t]) = 1
    THEN /\ stack' = [stack EXCEPT ![t] = <<>>]
         /\ outcome' = [outcome EXCEPT ![t] =
                          [kind |-> "return", val |-> v, exc |-> None, cause |-> None]]
    ELSE /\ stack' = [stack EXCEPT ![t] =
                        <<[stack[t][2] EXCEPT !.rv = v]>> \o Tail(Tail(@))]
         /\ UNCHANGED outcome

\* raise exc (from cause): no frame of this module catches what a callee
\* raises, so the exception leaves the top-level invocation
Raise(t, exc, cause) ==
    /\ stack' = [stack EXCEPT ![t] = <<>>]
    /\ outcome' = [outcome EXCEPT ![t] =
                     [kind |-> "raise", val |-> None, exc |-> exc, cause |-> cause]]

Log(t, event) == trace' = [trace EXCEPT ![t] = Append(@, event)]

\* a caller invokes a function of the module: a new top-level invocation
Idle(t) == stack[t] = <<>> /\ outcome[t].kind = "none"

Invoke(t, frame, args) ==
    /\ Idle(t)
    /\ stack' = [stack EXCEPT ![t] = <<frame>>]
    /\ call' = [call EXCEPT ![t] = [fn |-> frame.fn] @@ args]
    /\ outcome' = [outcome EXCEPT ![t] = NoOutcome]
    /\ trace' = [trace EXCEPT ![t] = <<>>]
    /\ UNCHANGED <<cache, created>>

\* the caller has taken the result or the exception of its invocation; nothing
\* of the invocation stays behind but the cache
Finish(t) ==
    /\ stack[t] = <<>>
    /\ outcome[t].kind # "none"
    /\ call' = [call EXCEPT ![t] = [fn |-> None]]
    /\ outcome' = [outcome EXCEPT ![t] = NoOutcome]
    /\ trace' = [trace EXCEPT ![t] = <<>>]
    /\ UNCHANGED <<stack, cache, created>>

-----------------------------------------------------------------------------
(* Frames: the arguments and locals of each function *)

Frame_create_grpc_channel(service_url, pb2_module, health_url_path, api_key, api_key_secret_fqn, client_service_account_email) ==
    [fn |-> "create_grpc_channel", pc |-> "validate", rv |-> None,
     service_url |-> service_url, pb2_module |-> pb2_module,
     health_url_path |-> health_url_path, api_key |-> api_key,
     api_key_secret_fqn |-> api_key_secret_fqn,
     client_service_account_email |-> client_service_account_email,
     scheme |-> None, grpc_endpoint |-> None, endpoint_to_authenticate |-> None,
     options |-> <<>>]

Frame_check_url_health(endpoint_url, health_url_path) ==
    [fn |-> "_check_url_health", pc |-> "start", rv |-> None,
     endpoint_url |-> endpoint_url, health_url_path |-> health_url_path]

Frame_create_channel_options(pb2_module) ==
    [fn |-> "_create_channel_options", pc |-> "start", rv |-> None,
     pb2_module |-> pb2_module]

Frame_create_retry_options(pb2_module) ==
    [fn |-> "_create_retry_options", pc |-> "start", rv |-> None,
     pb2_module |-> pb2_module]

Frame_create_channel_credentials(endpoint_to_authenticate, api_key, api_key_secret_fqn, client_service_account_email) ==
    [fn |-> "_create_channel_credentials", pc |-> "api_key", rv |-> None,
     endpoint_to_authenticate |-> endpoint_to_authenticate, api_key |-> api_key,
     api_key_secret_fqn |-> api_key_secret_fqn,
     client_service_account_email |-> client_service_account_email]

Frame_get_api_key(api_key, api_key_secret_fqn) ==
    [fn |-> "_get_api_key", pc |-> "start", rv |-> None,
     api_key |-> api_key, api_key_secret_fqn |-> api_key_secret_fqn]

Frame_get_secret(secret_fqn) ==
    [fn |-> "_get_secret", pc |-> "client", rv |-> None,
     secret_fqn |-> secret_fqn, client |-> 0, data |-> <<>>]

Frame_gcp_secret_client ==
    [fn |-> "_gcp_secret_client", pc |-> "lookup", rv |-> None, v |-> 0]

Frame_get_jwt_token(audience, client_service_account_email) ==
    [fn |-> "_get_jwt_token", pc |-> "start", rv |-> None,
     audience |-> audience,
     client_service_account_email |-> client_service_account_email]

Frame_create_composite_channel_credentials(api_key, jwt_token) ==
    [fn |-> "_create_composite_channel_credentials", pc |-> "start", rv |-> None,
     api_key |-> api_key, jwt_token |-> jwt_token]

-----------------------------------------------------------------------------
(* create_grpc_channel *)

\* a caller calls create_grpc_channel
Invoke_create_grpc_channel(t) ==
    /\ Idle(t)
    /\ \E service_url \in ServiceUrls, pb2_module \in Pb2Modules,
       health_url_path \in HealthUrlPaths, api_key \in ApiKeys,
       api_key_secret_fqn \in SecretFqns,
       client_service_account_email \in ServiceAccountEmails :
        Invoke(t, Frame_create_grpc_channel(service_url, pb2_module, health_url_path,
                      api_key, api_key_secret_fqn, client_service_account_email),
               [service_url |-> service_url, pb2_module |-> pb2_module,
                health_url_path |-> health_url_path, api_key |-> api_key,
                api_key_secret_fqn |-> api_key_secret_fqn,
                client_service_account_email |-> client_service_account_email])

\* create_grpc_channel called with one and the same https input: URL with
\* port and path, a generated module, a health path, a literal key, a
\* well-formed secret name and a service account
Invoke_create_grpc_channel_https(t) ==
    /\ Idle(t)
    /\ \E service_url \in {"https://example.com:8443/some_path"},
          pb2_module \in {m \in Pb2Modules :
                            m.is_module /\ m.DESCRIPTOR.kind = "FileDescriptor"},
          health_url_path \in {"/healthz/"}, api_key \in {"A"},
          api_key_secret_fqn \in {GoodSecretFqn},
          client_service_account_email \in {"sa@p.iam"} :
        Invoke(t, Frame_create_grpc_channel(service_url, pb2_module, health_url_path,
                      api_key, api_key_secret_fqn, client_service_account_email),
               [service_url |-> service_url, pb2_module |-> pb2_module,
                health_url_path |-> health_url_path, api_key |-> api_key,
                api_key_secret_fqn |-> api_key_secret_fqn,
                client_service_account_email |-> client_service_account_email])

\* lines 110-121: the URL is required, the module must be a module with a
\* DESCRIPTOR attribute
create_grpc_channel_validate(t) ==
    /\ At(t, "create_grpc_channel", "validate")
    /\ IF ~Truthy(Top(t).service_url)
       THEN Raise(t, "RuntimeError", None)
       ELSE IF ~Top(t).pb2_module.is_module \/ ~Top(t).pb2_module.has_DESCRIPTOR
       THEN Raise(t, "RuntimeError", None)
       ELSE Goto(t, [Top(t) EXCEPT !.pc = "parse"])
    /\ UNCHANGED <<call, trace, cache, created>>

\* lines 122-130: parse the URL, derive the endpoint and the audience, and
\* call _check_url_health
create_grpc_channel_parse(t) ==
    /\ At(t, "create_grpc_channel", "parse")
    /\ LET parsed_url == urlparse(Top(t).service_url)
       IN  IF port_raises(parsed_url)
           THEN Raise(t, "ValueError", None)
           ELSE CallFn(t, [Top(t) EXCEPT
                              !.pc = "options",
                              !.scheme = parsed_url.scheme,
                              !.grpc_endpoint = grpc_endpoint_of(parsed_url),
                              !.endpoint_to_authenticate =
                                  endpoint_to_authenticate_of(parsed_url)],
                       Frame_check_url_health(
                           parsed_url.scheme \o "://" \o grpc_endpoint_of(parsed_url),
                           Top(t).health_url_path))
    /\ UNCHANGED <<call, trace, cache, created>>

\* line 137: call _create_channel_options
create_grpc_channel_options(t) ==
    /\ At(t, "create_grpc_channel", "options")
    /\ CallFn(t, [Top(t) EXCEPT !.pc = "branch"],
              Frame_create_channel_options(Top(t).pb2_module))
    /\ UNCHANGED <<call, trace, cache, created>>

\* create_grpc_channel_branch with the scheme test lost: credentials are
\* resolved and a secure channel is built whatever the scheme
create_grpc_channel_branch_any_scheme(t) ==
    /\ At(t, "create_grpc_channel", "branch")
    /\ CallFn(t, [Top(t) EXCEPT !.pc = "secure", !.options = Top(t).rv],
              Frame_create_channel_credentials(
                  Top(t).endpoint_to_authenticate, Top(t).api_key,
                  Top(t).api_key_secret_fqn, Top(t).client_service_account_email))
    /\ UNCHANGED <<call, trace, cache, created>>

\* lines 139-146: https calls _create_channel_credentials;
\* lines 150-163: any other scheme builds the insecure channel and returns it
create_grpc_channel_branch(t) ==
    /\ At(t, "create_grpc_channel", "branch")
    /\ LET options == Top(t).rv
       IN  IF Top(t).scheme = "https"
           THEN /\ CallFn(t, [Top(t) EXCEPT !.pc = "secure", !.options = options],
                          Frame_create_channel_credentials(
                              Top(t).endpoint_to_authenticate, Top(t).api_key,
                              Top(t).api_key_secret_fqn,
                              Top(t).client_service_account_email))
                /\ UNCHANGED trace
           ELSE LET result == insecure_channel(Top(t).grpc_endpoint, options)
                IN  /\ Log(t, [op |-> "insecure_channel", channel |-> result])
                    /\ Return(t, result)
    /\ UNCHANGED <<call, cache, created>>

\* create_grpc_channel_secure with the options argument forgotten
create_grpc_channel_secure_no_options(t) ==
    /\ At(t, "create_grpc_channel", "secure")
    /\ LET channel_credentials == Top(t).rv
           result == secure_channel(Top(t).grpc_endpoint, channel_credentials, <<>>)
       IN  /\ Log(t, [op |-> "secure_channel", channel |-> result])
           /\ Return(t, result)
    /\ UNCHANGED <<call, cache, created>>

\* lines 147-149, 158-163: build the secure channel and return it
create_grpc_channel_secure(t) ==
    /\ At(t, "create_grpc_channel", "secure")
    /\ LET channel_credentials == Top(t).rv
           result == secure_channel(Top(t).grpc_endpoint, channel_credentials,
                                    Top(t).options)
       IN  /\ Log(t, [op |-> "secure_channel", channel |-> result])
           /\ Return(t, result)
    /\ UNCHANGED <<call, cache, created>>

-----------------------------------------------------------------------------
(* _check_url_health *)

Invoke_check_url_health(t) ==
    /\ Idle(t)
    /\ \E endpoint_url \in EndpointUrls, health_url_path \in HealthUrlPaths :
        Invoke(t, Frame_check_url_health(endpoint_url, health_url_path),
               [endpoint_url |-> endpoint_url, health_url_path |-> health_url_path])

\* _check_url_health that probes a second time when the first probe fails
_check_url_health_retry_once(t) ==
    /\ At(t, "_check_url_health", "start")
    /\ IF Truthy(Top(t).endpoint_url) /\ Truthy(Top(t).health_url_path)
       THEN \E answer \in HttpAnswers :
               /\ Log(t, [op |-> "GET",
                          url |-> health_url_of(Top(t).endpoint_url,
                                                Top(t).health_url_path),
                          answer |-> answer])
               /\ IF answer.raises # "no" \/ raise_for_status_raises(answer.status_code)
                  THEN IF \A i \in 1..Len(trace[t]) : trace[t][i].op # "GET"
                       THEN UNCHANGED <<stack, outcome>>
                       ELSE Raise(t, "HTTPError", None)
                  ELSE Return(t, TRUE)
       ELSE /\ Return(t, TRUE)
            /\ UNCHANGED trace
    /\ UNCHANGED <<call, cache, created>>

\* lines 170-176: with both arguments truthy, one GET and raise_for_status
_check_url_health(t) ==
    /\ At(t, "_check_url_health", "start")
    /\ IF Truthy(Top(t).endpoint_url) /\ Truthy(Top(t).health_url_path)
       THEN \E answer \in HttpAnswers :
               /\ Log(t, [op |-> "GET",
                          url |-> health_url_of(Top(t).endpoint_url,
                                                Top(t).health_url_path),
                          answer |-> answer])
               /\ IF answer.raises # "no"
                  THEN Raise(t, answer.raises, None)
                  ELSE IF raise_for_status_raises(answer.status_code)
                  THEN Raise(t, "HTTPError", None)
                  ELSE Return(t, TRUE)
       ELSE /\ Return(t, TRUE)
            /\ UNCHANGED trace
    /\ UNCHANGED <<call, cache, created>>

-----------------------------------------------------------------------------
(* _create_channel_options and _create_retry_options *)

Invoke_create_channel_options(t) ==
    /\ Idle(t)
    /\ \E pb2_module \in DescriptorModules :
        Invoke(t, Frame_create_channel_options(pb2_module),
               [pb2_module |-> pb2_module])

\* line 185: call _create_retry_options
_create_channel_options_start(t) ==
    /\ At(t, "_create_channel_options", "start")
    /\ CallFn(t, [Top(t) EXCEPT !.pc = "dumps"],
              Frame_create_retry_options(Top(t).pb2_module))
    /\ UNCHANGED <<call, trace, cache, created>>

\* line 186: serialize the retry options into the one channel option
_create_channel_options_dumps(t) ==
    /\ At(t, "_create_channel_options", "dumps")
    /\ Return(t, channel_options_of(Top(t).rv))
    /\ UNCHANGED <<call, trace, cache, created>>

Invoke_create_retry_options(t) ==
    /\ Idle(t)
    /\ \E pb2_module \in DescriptorModules :
        Invoke(t, Frame_create_retry_options(pb2_module),
               [pb2_module |-> pb2_module])

\* lines 193-214
_create_retry_options(t) ==
    /\ At(t, "_create_retry_options", "start")
    /\ IF retry_options_raises(Top(t).pb2_module) # "no"
       THEN /\ Raise(t, retry_options_raises(Top(t).pb2_module), None)
            /\ UNCHANGED trace
       ELSE LET result == retry_options_of(Top(t).pb2_module.DESCRIPTOR)
            IN  /\ Log(t, [op |-> "retry_options", result |-> result])
                /\ Return(t, result)
    /\ UNCHANGED <<call, cache, created>>

-----------------------------------------------------------------------------
(* _create_channel_credentials *)

Invoke_create_channel_credentials(t) ==
    /\ Idle(t)
    /\ \E endpoint_to_authenticate \in Audiences, api_key \in ApiKeys,
       api_key_secret_fqn \in SecretFqns,
       client_service_account_email \in ServiceAccountEmails :
        Invoke(t, Frame_create_channel_credentials(endpoint_to_authenticate, api_key,
                      api_key_secret_fqn, client_service_account_email),
               [endpoint_to_authenticate |-> endpoint_to_authenticate,
                api_key |-> api_key, api_key_secret_fqn |-> api_key_secret_fqn,
                client_service_account_email |-> client_service_account_email])

\* line 225: call _get_api_key
_create_channel_credentials_api_key(t) ==
    /\ At(t, "_create_channel_credentials", "api_key")
    /\ CallFn(t, [Top(t) EXCEPT !.pc = "jwt"],
              Frame_get_api_key(Top(t).api_key, Top(t).api_key_secret_fqn))
    /\ UNCHANGED <<call, trace, cache, created>>

\* lines 225-229: api_key is what _get_api_key returned; call _get_jwt_token
_create_channel_credentials_jwt(t) ==
    /\ At(t, "_create_channel_credentials", "jwt")
    /\ CallFn(t, [Top(t) EXCEPT !.pc = "composite", !.api_key = Top(t).rv],
              Frame_get_jwt_token(Top(t).endpoint_to_authenticate,
                                  Top(t).client_service_account_email))
    /\ UNCHANGED <<call, trace, cache, created>>

\* lines 227-231: jwt_token is what _get_jwt_token returned; call
\* _create_composite_channel_credentials
_create_channel_credentials_composite(t) ==
    /\ At(t, "_create_channel_credentials", "composite")
    /\ CallFn(t, [Top(t) EXCEPT !.pc = "return"],
              Frame_create_composite_channel_credentials(Top(t).api_key, Top(t).rv))
    /\ UNCHANGED <<call, trace, cache, created>>

\* line 232
_create_channel_credentials_return(t) ==
    /\ At(t, "_create_channel_credentials", "return")
    /\ Return(t, Top(t).rv)
    /\ UNCHANGED <<call, trace, cache, created>>

-----------------------------------------------------------------------------
(* _get_api_key *)

Invoke_get_api_key(t) ==
    /\ Idle(t)
    /\ \E api_key \in ApiKeys, api_key_secret_fqn \in SecretFqns :
        Invoke(t, Frame_get_api_key(api_key, api_key_secret_fqn),
               [api_key |-> api_key, api_key_secret_fqn |-> api_key_secret_fqn])

\* lines 236-243: a truthy secret name is resolved by _get_secret; without
\* one the literal api_key is returned
_get_api_key_start(t) ==
    /\ At(t, "_get_api_key", "start")
    /\ IF Truthy(Top(t).api_key_secret_fqn)
       THEN CallFn(t, [Top(t) EXCEPT !.pc = "secret"],
                   Frame_get_secret(Top(t).api_key_secret_fqn))
       ELSE Return(t, Top(t).api_key)
    /\ UNCHANGED <<call, trace, cache, created>>

\* _get_api_key_secret with the literal key winning over the secret
_get_api_key_secret_literal_first(t) ==
    /\ At(t, "_get_api_key", "secret")
    /\ Return(t, IF Truthy(Top(t).api_key) THEN Top(t).api_key ELSE Top(t).rv)
    /\ UNCHANGED <<call, trace, cache, created>>

\* lines 238-243: api_key is what _get_secret returned
_get_api_key_secret(t) ==
    /\ At(t, "_get_api_key", "secret")
    /\ Return(t, Top(t).rv)
    /\ UNCHANGED <<call, trace, cache, created>>

-----------------------------------------------------------------------------
(* _get_secret *)

Invoke_get_secret(t) ==
    /\ Idle(t)
    /\ \E secret_fqn \in SecretFqns :
        Invoke(t, Frame_get_secret(secret_fqn), [secret_fqn |-> secret_fqn])

\* line 256: call _gcp_secret_client
_get_secret_client(t) ==
    /\ At(t, "_get_secret", "client")
    /\ CallFn(t, [Top(t) EXCEPT !.pc = "validate"], Frame_gcp_secret_client)
    /\ UNCHANGED <<call, trace, cache, created>>

\* lines 256-268: client is what _gcp_secret_client returned; the shape of
\* the name is checked
_get_secret_validate(t) ==
    /\ At(t, "_get_secret", "validate")
    /\ IF secret_fqn_invalid(Top(t).secret_fqn)
       THEN Raise(t, "ValueError", None)
       ELSE Goto(t, [Top(t) EXCEPT !.pc = "access", !.client = Top(t).rv])
    /\ UNCHANGED <<call, trace, cache, created>>

\* lines 269-274: access_secret_version; what it raises is wrapped into a
\* RuntimeError raised from it
_get_secret_access(t) ==
    /\ At(t, "_get_secret", "access")
    /\ \E answer \in SecretAnswers :
          /\ Log(t, [op |-> "access_secret_version", client |-> Top(t).client,
                     name |-> Top(t).secret_fqn, answer |-> answer])
          /\ IF answer.raises # "no"
             THEN Raise(t, "RuntimeError", answer.raises)
             ELSE Goto(t, [Top(t) EXCEPT !.pc = "decode", !.data = answer.data])
    /\ UNCHANGED <<call, cache, created>>

\* line 275: the payload is decoded as UTF-8
_get_secret_decode(t) ==
    /\ At(t, "_get_secret", "decode")
    /\ IF decode_raises(Top(t).data)
       THEN Raise(t, "UnicodeDecodeError", None)
       ELSE Return(t, decode(Top(t).data))
    /\ UNCHANGED <<call, trace, cache, created>>

-----------------------------------------------------------------------------
(* _gcp_secret_client: cachetools.cached(LRUCache(maxsize=1)) without a    *)
(* lock: look the key up, on a miss call the function, then store.         *)

Invoke_gcp_secret_client(t) ==
    /\ Idle(t)
    /\ Invoke(t, Frame_gcp_secret_client, [args |-> <<>>])

\* line 278, the wrapper: a hit returns the cached client
_gcp_secret_client_lookup(t) ==
    /\ At(t, "_gcp_secret_client", "lookup")
    /\ Log(t, [op |-> "_gcp_secret_client", hit |-> cache # <<>>])
    /\ IF cache # <<>>
       THEN Return(t, cache[1])
       ELSE Goto(t, [Top(t) EXCEPT !.pc = "create"])
    /\ UNCHANGED <<call, cache, created>>

\* line 280: SecretManagerServiceClient()
_gcp_secret_client_create(t) ==
    /\ At(t, "_gcp_secret_client", "create")
    /\ \E answer \in ClientAnswers :
          /\ Log(t, [op |-> "SecretManagerServiceClient", answer |-> answer])
          /\ IF answer # "ok"
             THEN /\ Raise(t, answer, None)
                  /\ UNCHANGED created
             ELSE /\ created' = created + 1
                  /\ Goto(t, [Top(t) EXCEPT !.pc = "store", !.v = created + 1])
    /\ UNCHANGED <<call, cache>>

\* line 278, the wrapper: the new client is stored and returned
_gcp_secret_client_store(t) ==
    /\ At(t, "_gcp_secret_client", "store")
    /\ cache' = <<Top(t).v>>
    /\ Return(t, Top(t).v)
    /\ UNCHANGED <<call, trace, created>>

-----------------------------------------------------------------------------
(* _get_jwt_token *)

Invoke_get_jwt_token(t) ==
    /\ Idle(t)
    /\ \E audience \in Audiences, client_service_account_email \in ServiceAccountEmails :
        Invoke(t, Frame_get_jwt_token(audience, client_service_account_email),
               [audience |-> audience,
                client_service_account_email |-> client_service_account_email])

\* _get_jwt_token_start with `or` for `and`: one argument is enough to go on
_get_jwt_token_start_either(t) ==
    /\ At(t, "_get_jwt_token", "start")
    /\ IF Truthy(Top(t).audience) \/ Truthy(Top(t).client_service_account_email)
       THEN Goto(t, [Top(t) EXCEPT !.pc = "default"])
       ELSE Return(t, None)
    /\ UNCHANGED <<call, trace, cache, created>>

\* _get_jwt_token_start with a process-wide token: a token that another
\* running invocation has obtained is returned without an exchange of its own
_get_jwt_token_start_shared(t) ==
    /\ At(t, "_get_jwt_token", "start")
    /\ LET obtained == UNION {{trace[u][i].answer.token :
                                    i \in {k \in 1..Len(trace[u]) :
                                             /\ trace[u][k].op = "POST"
                                             /\ trace[u][k].answer.raises = "no"
                                             /\ trace[u][k].answer.has_token}} :
                                  u \in Threads \ {t}}
       IN  IF ~(Truthy(Top(t).audience) /\ Truthy(Top(t).client_service_account_email))
           THEN Return(t, None)
           ELSE IF obtained # {}
           THEN \E token \in obtained : Return(t, token)
           ELSE Goto(t, [Top(t) EXCEPT !.pc = "default"])
    /\ UNCHANGED <<call, trace, cache, created>>

\* lines 289-290, 319: without audience or service account the result is None
_get_jwt_token_start(t) ==
    /\ At(t, "_get_jwt_token", "start")
    /\ IF Truthy(Top(t).audience) /\ Truthy(Top(t).client_service_account_email)
       THEN Goto(t, [Top(t) EXCEPT !.pc = "default"])
       ELSE Return(t, None)
    /\ UNCHANGED <<call, trace, cache, created>>

\* line 299: google.auth.default
_get_jwt_token_default(t) ==
    /\ At(t, "_get_jwt_token", "default")
    /\ \E answer \in DefaultCredsAnswers :
          /\ Log(t, [op |-> "google.auth.default", answer |-> answer])
          /\ IF answer # "ok"
             THEN Raise(t, answer, None)
             ELSE Goto(t, [Top(t) EXCEPT !.pc = "post"])
    /\ UNCHANGED <<call, cache, created>>

\* lines 305-319: the POST, the JSON body, its field 'token'; logging
\* result[:5] raises TypeError when the field is missing
_get_jwt_token_post(t) ==
    /\ At(t, "_get_jwt_token", "post")
    /\ \E answer \in TokenAnswers :
          /\ Log(t, [op |-> "POST",
                     url |-> _get_jwt_token_url(Top(t).client_service_account_email),
                     audience |-> Top(t).audience, answer |-> answer])
          /\ IF answer.raises # "no"
             THEN Raise(t, answer.raises, None)
             ELSE IF ~answer.has_token
             THEN Raise(t, "TypeError", None)
             ELSE Return(t, answer.token)
    /\ UNCHANGED <<call, cache, created>>

-----------------------------------------------------------------------------
(* _create_composite_channel_credentials *)

Invoke_create_composite_channel_credentials(t) ==
    /\ Idle(t)
    /\ \E api_key \in ApiKeys, jwt_token \in JwtTokens :
        Invoke(t, Frame_create_composite_channel_credentials(api_key, jwt_token),
               [api_key |-> api_key, jwt_token |-> jwt_token])

\* lines 331-370: the TLS credential is made (line 331) and the call
\* credentials are composed onto it
_create_composite_channel_credentials_start(t) ==
    /\ At(t, "_create_composite_channel_credentials", "start")
    /\ LET result == _create_composite_channel_credentials(Top(t).api_key,
                                                           Top(t).jwt_token)
       IN  /\ Log(t, [op |-> "SslCredentials", result |-> result])
           /\ Return(t, result)
    /\ UNCHANGED <<call, cache, created>>

-----------------------------------------------------------------------------
(* Specifications *)

\* one caller thread: every function of the module, called one after another
Next ==
    \E t \in {1} :
        \/ Invoke_create_grpc_channel(t)
        \/ create_grpc_channel_validate(t)
        \/ create_grpc_channel_parse(t)
        \/ create_grpc_channel_options(t)
        \/ create_grpc_channel_branch(t)
        \/ create_grpc_channel_secure(t)
        \/ Invoke_check_url_health(t)
        \/ _check_url_health(t)
        \/ Invoke_create_channel_options(t)
        \/ _create_channel_options_start(t)
        \/ _create_channel_options_dumps(t)
        \/ Invoke_create_retry_options(t)
        \/ _create_retry_options(t)
        \/ Invoke_create_channel_credentials(t)
        \/ _create_channel_credentials_api_key(t)
        \/ _create_channel_credentials_jwt(t)
        \/ _create_channel_credentials_composite(t)
        \/ _create_channel_credentials_return(t)
        \/ Invoke_get_api_key(t)
        \/ _get_api_key_start(t)
        \/ _get_api_key_secret(t)
        \/ Invoke_get_secret(t)
        \/ _get_secret_client(t)
        \/ _get_secret_validate(t)
        \/ _get_secret_access(t)
        \/ _get_secret_decode(t)
        \/ Invoke_gcp_secret_client(t)
        \/ _gcp_secret_client_lookup(t)
        \/ _gcp_secret_client_create(t)
        \/ _gcp_secret_client_store(t)
        \/ Invoke_get_jwt_token(t)
        \/ _get_jwt_token_start(t)
        \/ _get_jwt_token_default(t)
        \/ _get_jwt_token_post(t)
        \/ Invoke_create_composite_channel_credentials(t)
        \/ _create_composite_channel_credentials_start(t)
        \/ Finish(t)

Spec == Init /\ [][Next]_vars

\* several caller threads resolving secrets at the same time
NextThreads ==
    \E t \in Threads :
        \/ Invoke_get_secret(t)
        \/ _get_secret_client(t)
        \/ _get_secret_validate(t)
        \/ _get_secret_access(t)
        \/ _get_secret_decode(t)
        \/ Invoke_gcp_secret_client(t)
        \/ _gcp_secret_client_lookup(t)
        \/ _gcp_secret_client_create(t)
        \/ _gcp_secret_client_store(t)
        \/ Finish(t)

SpecThreads == Init /\ [][NextThreads]_vars

\* two callers that call create_grpc_channel with the same https input, one
\* after the other or at the same time, any number of times
Callers == {1, 2}

NextCallers ==
    \E t \in Callers :
        \/ Invoke_create_grpc_channel_https(t)
        \/ create_grpc_channel_validate(t)
        \/ create_grpc_channel_parse(t)
        \/ create_grpc_channel_options(t)
        \/ create_grpc_channel_branch(t)
        \/ create_grpc_channel_secure(t)
        \/ _check_url_health(t)
        \/ _create_channel_options_start(t)
        \/ _create_channel_options_dumps(t)
        \/ _create_retry_options(t)
        \/ _create_channel_credentials_api_key(t)
        \/ _create_channel_credentials_jwt(t)
        \/ _create_channel_credentials_composite(t)
        \/ _create_channel_credentials_return(t)
        \/ _get_api_key_start(t)
        \/ _get_api_key_secret(t)
        \/ _get_secret_client(t)
        \/ _get_secret_validate(t)
        \/ _get_secret_access(t)
        \/ _get_secret_decode(t)
        \/ _gcp_secret_client_lookup(t)
        \/ _gcp_secret_client_create(t)
        \/ _gcp_secret_client_store(t)
        \/ _get_jwt_token_start(t)
        \/ _get_jwt_token_default(t)
        \/ _get_jwt_token_post(t)
        \/ _create_composite_channel_credentials_start(t)
        \/ Finish(t)

SpecCallers == Init /\ [][NextCallers]_vars

-----------------------------------------------------------------------------
(* Properties *)

Done(t) == stack[t] = <<>> /\ outcome[t].kind # "none"
Returned(t) == stack[t] = <<>> /\ outcome[t].kind = "return"
Raised(t) == stack[t] = <<>> /\ outcome[t].kind = "raise"

\* the events of the current invocation of thread t whose op is in ops
Events(t, ops) == SelectSeq(trace[t], LAMBDA e : e.op \in ops)

SecretOps == {"_gcp_secret_client", "SecretManagerServiceClient", "access_secret_version"}
TokenOps == {"google.auth.default", "POST"}
ChannelOps == {"secure_channel", "insecure_channel"}

\* every credential the invocation of thread t has built or returned
CredentialsOf(t) ==
    {trace[t][i].channel.credentials :
        i \in {j \in 1..Len(trace[t]) : trace[t][j].op \in ChannelOps}}
    \cup (IF Returned(t) /\ call[t].fn \in {"_create_channel_credentials",
                                            "_create_composite_channel_credentials"}
          THEN {outcome[t].val} ELSE {})

\* C1: plaintext isolation.  In a run of create_grpc_channel whose URL has a
\* scheme other than https there is never a secret fetch (not even a lookup
\* of the backend client) nor a token exchange; a channel that is built is
\* the insecure one, without call credentials, and its options hold the
\* grpc.service_config entry with the retry policy.  And in every state a
\* credential with call credentials has the TLS transport credential.
C1_PlaintextIsolation ==
    \A t \in Threads :
        /\ (call[t].fn = "create_grpc_channel"
            /\ urlparse(call[t].service_url).scheme # "https") =>
              /\ Events(t, SecretOps \cup TokenOps \cup {"secure_channel"}) = <<>>
              /\ Returned(t) =>
                    /\ outcome[t].val.kind = "insecure"
                    /\ outcome[t].val.credentials.transport = "none"
                    /\ outcome[t].val.credentials.call_credentials = <<>>
                    /\ \E i \in 1..Len(outcome[t].val.options) :
                          /\ outcome[t].val.options[i][1] = "grpc.service_config"
                          /\ Contains(outcome[t].val.options[i][2], "\"retryPolicy\"")
                    /\ Events(t, ChannelOps) =
                          <<[op |-> "insecure_channel", channel |-> outcome[t].val]>>
        /\ \A c \in CredentialsOf(t) : c.call_credentials # <<>> => c.transport = "ssl"

\* C1 witness: an http URL with api key, secret name and service account all
\* supplied has produced its channel
C1_Witness ==
    /\ Returned(1)
    /\ call[1].fn = "create_grpc_channel"
    /\ call[1].service_url = "http://localhost:5000"
    /\ call[1].api_key = "A"
    /\ call[1].api_key_secret_fqn = GoodSecretFqn
    /\ call[1].client_service_account_email = "sa@p.iam"
    /\ outcome[1].val.kind = "insecure"

\* the payload the secret storage backend returned in this invocation, decoded
ResolvedSecrets(t) ==
    {decode(trace[t][i].answer.data) :
        i \in {j \in 1..Len(trace[t]) :
                  /\ trace[t][j].op = "access_secret_version"
                  /\ trace[t][j].answer.raises = "no"
                  /\ ~decode_raises(trace[t][j].answer.data)}}

\* C2: API key precedence.  When _get_api_key returns: with a secret name
\* supplied the result is the value the secret resolved to, whatever the
\* literal api_key is; without one the result is the literal api_key (None
\* when that is absent too).
C2_ApiKeyPrecedence ==
    \A t \in Threads :
        (Returned(t) /\ call[t].fn = "_get_api_key") =>
            IF Truthy(call[t].api_key_secret_fqn)
            THEN /\ ResolvedSecrets(t) = {outcome[t].val}
                 /\ trace[t][Len(trace[t])].name = call[t].api_key_secret_fqn
            ELSE /\ outcome[t].val = call[t].api_key
                 /\ trace[t] = <<>>

\* C2 witness: literal key "A", a secret that resolved to "B", and "B" returned
C2_Witness ==
    /\ Returned(1)
    /\ call[1].fn = "_get_api_key"
    /\ call[1].api_key = "A"
    /\ call[1].api_key_secret_fqn = GoodSecretFqn
    /\ ResolvedSecrets(1) = {"B"}
    /\ outcome[1].val = "B"

\* C3: secret FQN validation comes first.  A call of _get_secret with a name
\* that is absent, empty, without the 'projects/' prefix, or without
\* '/secrets/' or '/versions/' ends with ValueError, and by then nothing of
\* the secret storage backend was touched: no client lookup, no client
\* construction, no access_secret_version.
C3_SecretFqnValidationFirst ==
    \A t \in Threads :
        (Done(t) /\ call[t].fn = "_get_secret"
         /\ secret_fqn_invalid(call[t].secret_fqn)) =>
            /\ outcome[t].kind = "raise"
            /\ outcome[t].exc = "ValueError"
            /\ Events(t, SecretOps) = <<>>

\* the invalid-argument errors of the module: the RuntimeError raised for a
\* missing URL, module or DESCRIPTOR (not the one wrapping a backend error),
\* and ValueError
InvalidArgument(o) ==
    o.kind = "raise" /\ (o.exc = "ValueError" \/ (o.exc = "RuntimeError" /\ o.cause = None))

\* C4: invalid-argument failures precede all network I/O.  A run of
\* create_grpc_channel that ends with an invalid-argument error has performed
\* no health GET, no secret fetch and no token exchange.
C4_InvalidArgumentBeforeNetwork ==
    \A t \in Threads :
        (Raised(t) /\ call[t].fn = "create_grpc_channel" /\ InvalidArgument(outcome[t])) =>
            Events(t, {"GET", "access_secret_version", "POST"}) = <<>>

\* a step of the construction sequence that failed
Failed(e) ==
    CASE e.op = "GET" ->
            e.answer.raises # "no" \/ e.answer.status_code \in 400..599
      [] e.op = "SecretManagerServiceClient" -> e.answer # "ok"
      [] e.op = "access_secret_version" ->
            e.answer.raises # "no" \/ decode_raises(e.answer.data)
      [] e.op = "google.auth.default" -> e.answer # "ok"
      [] e.op = "POST" -> e.answer.raises # "no" \/ ~e.answer.has_token
      [] OTHER -> FALSE

\* C5: any failure aborts channel creation.  In a run of create_grpc_channel a
\* failed step (health probe, secret fetch, token exchange) is the last step
\* there is: nothing runs after it, no channel is built and none is returned;
\* a run that raised (input validation included) has built no channel; and no
\* network step runs twice.
C5_FailureAborts ==
    \A t \in Threads :
        call[t].fn = "create_grpc_channel" =>
            /\ \A i \in 1..(Len(trace[t]) - 1) : ~Failed(trace[t][i])
            /\ (trace[t] # <<>> /\ Failed(trace[t][Len(trace[t])])) =>
                  /\ ~Returned(t)
                  /\ Events(t, ChannelOps) = <<>>
            /\ Raised(t) => Events(t, ChannelOps) = <<>>
            /\ \A op \in {"GET", "SecretManagerServiceClient", "access_secret_version",
                          "google.auth.default", "POST"} :
                  Len(Events(t, {op})) <= 1

\* C5 witness: an https URL with secret name and service account supplied,
\* the health probe answered 503, and the run ended with HTTPError after that
\* one GET
C5_Witness ==
    /\ Raised(1)
    /\ call[1].fn = "create_grpc_channel"
    /\ call[1].service_url = "https://localhost:5001"
    /\ call[1].api_key_secret_fqn = GoodSecretFqn
    /\ call[1].client_service_account_email = "sa@p.iam"
    /\ outcome[1].exc = "HTTPError"
    /\ Len(trace[1]) = 1
    /\ trace[1][1].op = "GET"
    /\ trace[1][1].answer.status_code = 503

\* C6: credential composition arity and order.  What
\* _create_composite_channel_credentials returns has the TLS transport
\* credential and: no call credential when api_key and jwt_token are both
\* absent; the x-api-key credential alone for api_key alone; the bearer
\* credential alone for jwt_token alone; the x-api-key credential followed by
\* the bearer credential when both are present.
C6_CompositionArityAndOrder ==
    \A t \in Threads :
        (Returned(t) /\ call[t].fn = "_create_composite_channel_credentials") =>
            LET cc == outcome[t].val.call_credentials
                k == call[t].api_key
                j == call[t].jwt_token
                IsApiKey(c) == c.key = "x-api-key" /\ c.value = k
                IsBearer(c) == /\ c.plugin = "AccessTokenAuthMetadataPlugin"
                               /\ c.value = "Bearer " \o j
            IN  /\ outcome[t].val.transport = "ssl"
                /\ (~Truthy(k) /\ ~Truthy(j)) => cc = <<>>
                /\ (Truthy(k) /\ ~Truthy(j)) => Len(cc) = 1 /\ IsApiKey(cc[1])
                /\ (~Truthy(k) /\ Truthy(j)) => Len(cc) = 1 /\ IsBearer(cc[1])
                /\ (Truthy(k) /\ Truthy(j)) =>
                      Len(cc) = 2 /\ IsApiKey(cc[1]) /\ IsBearer(cc[2])

\* C6 witness: both an api key and a token were composed
C6_Witness ==
    /\ Returned(1)
    /\ call[1].fn = "_create_composite_channel_credentials"
    /\ call[1].api_key = "A"
    /\ call[1].jwt_token = "T"
    /\ Len(outcome[1].val.call_credentials) = 2

\* C7: memoized secret storage client.  Over any interleaving of concurrent
\* calls at most one SecretManagerServiceClient is ever constructed, and every
\* call of _gcp_secret_client that returns, returns that one instance.
C7_AtMostOneClient ==
    /\ created <= 1
    /\ \A t \in Threads :
          (Returned(t) /\ call[t].fn = "_gcp_secret_client") => outcome[t].val = 1

\* C8: backend error wrapping.  A call of _get_secret with a well-formed name
\* that fails, fails with the RuntimeError that wraps the original exception
\* as its cause.
C8_BackendErrorWrapped ==
    \A t \in Threads :
        (Raised(t) /\ call[t].fn = "_get_secret"
         /\ ~secret_fqn_invalid(call[t].secret_fqn)) =>
            outcome[t].exc = "RuntimeError" /\ outcome[t].cause # None

\* p is s without its leading and trailing '/' characters
IsStripped(p, s) ==
    \E i \in 1..(Len(s) + 1), j \in 0..Len(s) :
        /\ p = Slice(s, i, j)
        /\ \A k \in 1..(i - 1) : Slice(s, k, k) = "/"
        /\ \A k \in (j + 1)..Len(s) : Slice(s, k, k) = "/"
        /\ p # "" => Slice(p, 1, 1) # "/" /\ Slice(p, Len(p), Len(p)) # "/"

\* C9: health probe gating.  _check_url_health with an absent or empty
\* endpoint_url or health_url_path returns True without any request.  With
\* both present it issues exactly one GET, to endpoint_url + '/' + the path
\* without its leading and trailing slashes; it returns True when the status
\* is no client or server error and raises HTTPError when it is one.
C9_HealthProbeGating ==
    \A t \in Threads :
        call[t].fn = "_check_url_health" =>
            IF ~Truthy(call[t].endpoint_url) \/ ~Truthy(call[t].health_url_path)
            THEN /\ trace[t] = <<>>
                 /\ Done(t) => (outcome[t].kind = "return" /\ outcome[t].val = TRUE)
            ELSE Done(t) =>
                    /\ Len(trace[t]) = 1
                    /\ trace[t][1].op = "GET"
                    /\ \E p \in {Slice(call[t].health_url_path, i, j) :
                                    i \in 1..(Len(call[t].health_url_path) + 1),
                                    j \in 0..Len(call[t].health_url_path)} :
                          /\ IsStripped(p, call[t].health_url_path)
                          /\ trace[t][1].url = call[t].endpoint_url \o "/" \o p
                    /\ trace[t][1].answer.raises = "no" =>
                          IF trace[t][1].answer.status_code \in 400..599
                          THEN outcome[t].kind = "raise" /\ outcome[t].exc = "HTTPError"
                          ELSE outcome[t].kind = "return" /\ outcome[t].val = TRUE

\* C9 witness: both arguments present, the endpoint answered 400, HTTPError
C9_Witness ==
    /\ Raised(1)
    /\ call[1].fn = "_check_url_health"
    /\ call[1].endpoint_url = "https://example.com:8443"
    /\ call[1].health_url_path = "/healthz/"
    /\ trace[1][1].url = "https://example.com:8443/healthz"
    /\ trace[1][1].answer.status_code = 400
    /\ outcome[1].exc = "HTTPError"

\* C10: missing-argument token issuance.  _get_jwt_token with the audience,
\* the service account email, or both absent performs no default-credential
\* lookup and no POST, and returns None.
C10_MissingArgumentToken ==
    \A t \in Threads :
        (call[t].fn = "_get_jwt_token"
         /\ (~Truthy(call[t].audience) \/ ~Truthy(call[t].client_service_account_email))) =>
            /\ trace[t] = <<>>
            /\ Done(t) => (outcome[t].kind = "return" /\ outcome[t].val = None)

\* C10 witness: no audience but a service account, and None returned
C10_Witness ==
    /\ Returned(1)
    /\ call[1].fn = "_get_jwt_token"
    /\ call[1].audience = None
    /\ call[1].client_service_account_email = "sa@p.iam"
    /\ outcome[1].val = None

\* C11 - Retry policy determinism: whenever _create_retry_options returns for
\* a descriptor with package P and declared services S1..Sn, the 'name' list
\* of the result has exactly n entries, the i-th being {"service": "P.Si"},
\* and the 'retryPolicy' is the fixed one: maxAttempts 5, initialBackoff
\* '1s', maxBackoff '5s', backoffMultiplier 1.5 (kept in tenths) and the
\* retryable codes RESOURCE_EXHAUSTED, UNAVAILABLE, whatever the descriptor.
C11_RetryPolicyDeterminism ==
    \A t \in Threads :
        (Returned(t) /\ call[t].fn = "_create_retry_options") =>
            LET module_desc == call[t].pb2_module.DESCRIPTOR
                result == outcome[t].val
            IN  /\ DOMAIN result = {"name", "retryPolicy"}
                /\ Len(result.name) = Len(module_desc.services_by_name)
                /\ \A i \in 1..Len(module_desc.services_by_name) :
                       result.name[i] =
                         [service |-> module_desc.package \o "." \o
                                      module_desc.services_by_name[i]]
                /\ result.retryPolicy =
                     [maxAttempts |-> 5,
                      initialBackoff |-> "1s",
                      maxBackoff |-> "5s",
                      backoffMultiplier |-> 15,
                      retryableStatusCodes |-> <<"RESOURCE_EXHAUSTED", "UNAVAILABLE">>]

\* _create_retry_options has returned for a descriptor that declares three
\* services.
C11_Witness ==
    \E t \in Threads :
        /\ Returned(t)
        /\ call[t].fn = "_create_retry_options"
        /\ Len(call[t].pb2_module.DESCRIPTOR.services_by_name) = 3

\* json.dumps of the retry options of the descriptor test.v1 with the
\* services Greeter and Health, as Python writes it
GreeterHealthServiceConfig ==
    "{\"name\": [{\"service\": \"test.v1.Greeter\"}, {\"service\": \"test.v1.Health\"}], "
    \o "\"retryPolicy\": {\"maxAttempts\": 5, \"initialBackoff\": \"1s\", "
    \o "\"maxBackoff\": \"5s\", \"backoffMultiplier\": 1.5, "
    \o "\"retryableStatusCodes\": [\"RESOURCE_EXHAUSTED\", \"UNAVAILABLE\"]}}"

\* C12 - Channel options shape: every channel that create_grpc_channel
\* constructs, secure or insecure, is given options with exactly one entry,
\* keyed 'grpc.service_config', whose value is the serialized document for
\* the supplied descriptor with the keys 'name' and 'retryPolicy'; the value
\* depends on the descriptor only, so it is the same on both branches.
C12_ChannelOptionsShape ==
    \A t \in Threads :
        call[t].fn = "create_grpc_channel" =>
            \A i \in 1..Len(trace[t]) :
                trace[t][i].op \in ChannelOps =>
                    LET options == trace[t][i].channel.options
                        module_desc == call[t].pb2_module.DESCRIPTOR
                    IN  /\ Len(options) = 1
                        /\ options[1][1] = "grpc.service_config"
                        /\ StartsWith(options[1][2], "{\"name\": [")
                        /\ Contains(options[1][2], "], \"retryPolicy\": {")
                        /\ \A k \in 1..Len(module_desc.services_by_name) :
                               Contains(options[1][2],
                                        "{\"service\": \"" \o module_desc.package \o "."
                                        \o module_desc.services_by_name[k] \o "\"}")
                        /\ (module_desc.package = "test.v1"
                            /\ module_desc.services_by_name = <<"Greeter", "Health">>)
                               => options[1][2] = GreeterHealthServiceConfig
                        /\ (Returned(t) => outcome[t].val.options = options)

\* create_grpc_channel has returned a secure channel for an https URL, with
\* its options.
C12_Witness ==
    \E t \in Threads :
        /\ Returned(t)
        /\ call[t].fn = "create_grpc_channel"
        /\ outcome[t].val.kind = "secure"
        /\ Len(outcome[t].val.options) = 1

\* The target the endpoint derivation is stated to give for a parsed URL:
\* the host alone when the URL has no port, host:port when it has one.
StatedTarget(parsed_url) ==
    IF hostinfo(parsed_url).port = None
    THEN hostname(parsed_url)
    ELSE hostname(parsed_url) \o ":" \o ToString(int(hostinfo(parsed_url).port))

\* C13 - Endpoint derivation: for a service_url with scheme s, host h and an
\* optional port p, every step of create_grpc_channel uses target = h without
\* a port and h:p with one, the token exchange gets the audience s://h, and
\* the health probe goes to s://target/<health path without its slashes>;
\* none of them has the path of the URL, and the target has no scheme.
C13_EndpointDerivation ==
    \A t \in Threads :
        LET parsed_url == urlparse(call[t].service_url)
        IN  (/\ call[t].fn = "create_grpc_channel"
             /\ parsed_url.scheme # ""
             /\ hostname(parsed_url) # None
             /\ ~port_raises(parsed_url)) =>
                \A i \in 1..Len(trace[t]) :
                    LET e == trace[t][i]
                    IN  /\ e.op = "GET" =>
                             e.url = parsed_url.scheme \o "://" \o StatedTarget(parsed_url)
                                     \o "/" \o strip(call[t].health_url_path, "/")
                        /\ e.op = "POST" =>
                             e.audience = parsed_url.scheme \o "://" \o hostname(parsed_url)
                        /\ e.op \in ChannelOps =>
                             /\ e.channel.target = StatedTarget(parsed_url)
                             /\ ~Contains(e.channel.target, "/")

\* The three markers of a secret name in their order: the prefix 'projects/',
\* then '/secrets/' at or after the end of the prefix, then '/versions/' at or
\* after the end of '/secrets/' (neighbouring markers may share their slash).
MarkersInOrder(secret_fqn) ==
    /\ StartsWith(secret_fqn, "projects/")
    /\ \E i \in Len("projects/")..Len(secret_fqn) :
          /\ Slice(secret_fqn, i, i + Len("/secrets/") - 1) = "/secrets/"
          /\ \E j \in (i + Len("/secrets/") - 1)..Len(secret_fqn) :
                Slice(secret_fqn, j, j + Len("/versions/") - 1) = "/versions/"

\* C14 - Secret FQN marker order: _get_secret sends a secret_fqn to the backend
\* only if it starts with 'projects/', has '/secrets/' after that prefix and
\* '/versions/' after the '/secrets/' marker; a name with the markers in
\* another order ends in ValueError and is never sent to the backend.
C14_SecretFqnMarkerOrder ==
    \A t \in Threads :
        call[t].fn = "_get_secret" =>
            /\ \A i \in 1..Len(trace[t]) :
                   trace[t][i].op = "access_secret_version" =>
                       MarkersInOrder(trace[t][i].name)
            /\ (Done(t) /\ Truthy(call[t].secret_fqn)
                 /\ ~MarkersInOrder(call[t].secret_fqn)
                 /\ outcome[t].exc \notin {"DefaultCredentialsError"})
                    => (Raised(t) /\ outcome[t].exc = "ValueError")

\* The step of create_grpc_channel an event belongs to: 1 the health probe,
\* 2 the retry-policy build, 3 the secret fetch, 4 the token exchange, 5 the
\* credential composition, 6 the channel construction.
StepOf(op) ==
    CASE op = "GET" -> 1
      [] op = "retry_options" -> 2
      [] op \in SecretOps -> 3
      [] op \in TokenOps -> 4
      [] op = "SslCredentials" -> 5
      [] op \in ChannelOps -> 6

\* The step the function of a frame works for; 0 for create_grpc_channel
\* itself and for _create_channel_credentials, which only call the steps.
StepOfFn(fn) ==
    CASE fn = "_check_url_health" -> 1
      [] fn \in {"_create_channel_options", "_create_retry_options"} -> 2
      [] fn \in {"_get_api_key", "_get_secret", "_gcp_secret_client"} -> 3
      [] fn = "_get_jwt_token" -> 4
      [] fn = "_create_composite_channel_credentials" -> 5
      [] OTHER -> 0

\* C15 - Fixed construction order, each step at most once: in every run of
\* create_grpc_channel nothing is observable before the input validation of
\* lines 110-121 has passed; the observable events come in the order health
\* probe, retry-policy build, secret fetch, token exchange, credential
\* composition, channel construction; while a step is running no event of a
\* later step has happened; and the health GET, the retry-policy build, the
\* secret fetch, the token-exchange POST, the composition and the channel
\* construction each happen at most once.
C15_FixedOrderAtMostOnce ==
    \A t \in Threads :
        call[t].fn = "create_grpc_channel" =>
            /\ trace[t] # <<>> =>
                   /\ Truthy(call[t].service_url)
                   /\ call[t].pb2_module.is_module
                   /\ call[t].pb2_module.has_DESCRIPTOR
            /\ \A i, j \in 1..Len(trace[t]) :
                   i < j => StepOf(trace[t][i].op) <= StepOf(trace[t][j].op)
            /\ \A op \in {"GET", "retry_options", "access_secret_version", "POST",
                           "SslCredentials", "secure_channel", "insecure_channel"} :
                   Len(Events(t, {op})) <= 1
            /\ Len(Events(t, ChannelOps)) <= 1
            /\ (stack[t] # <<>> /\ StepOfFn(Top(t).fn) # 0) =>
                   \A i \in 1..Len(trace[t]) :
                       StepOf(trace[t][i].op) <= StepOfFn(Top(t).fn)

\* create_grpc_channel has returned after all six steps: the probe, the
\* retry-policy build, a secret fetch, a token exchange, the composition
\* and the construction of the channel.
C15_Witness ==
    \E t \in Threads :
        /\ Returned(t)
        /\ call[t].fn = "create_grpc_channel"
        /\ {StepOf(trace[t][i].op) : i \in 1..Len(trace[t])} = 1..6
        /\ Len(Events(t, {"GET", "access_secret_version", "POST"})) = 3

\* C16 - No silent loss of authentication on TLS: whenever create_grpc_channel
\* returns a channel for an https URL, a supplied (non-empty)
\* client_service_account_email means the credential of the channel has the
\* bearer call credential, and a supplied (non-empty) api_key_secret_fqn or
\* api_key means it has the x-api-key call credential with a non-empty key;
\* no answer of the secret fetch or of the token exchange lets the creation
\* succeed without the call credential that was asked for.
C16_NoSilentLossOfAuthentication ==
    \A t \in Threads :
        (/\ Returned(t)
         /\ call[t].fn = "create_grpc_channel"
         /\ urlparse(call[t].service_url).scheme = "https") =>
            LET cc == outcome[t].val.credentials.call_credentials
            IN  /\ Truthy(call[t].client_service_account_email) =>
                     \E i \in 1..Len(cc) :
                        cc[i].key = "authorization" /\ cc[i].value # "Bearer "
                /\ (Truthy(call[t].api_key_secret_fqn) \/ Truthy(call[t].api_key)) =>
                     \E i \in 1..Len(cc) :
                        cc[i].key = "x-api-key" /\ Truthy(cc[i].value)

\* C17 - Independent invocations: when two callers call create_grpc_channel
\* with the same https input, one after the other or interleaved, every call
\* that returns has made its own health probe, its own retry-policy build,
\* its own secret fetch and its own token exchange, and its channel carries
\* the options, the key and the token that came out of its own steps, never
\* what the other call obtained; and once a call is over nothing of it is
\* left but the memoized secret storage client (cache, created).
C17_IndependentInvocations ==
    /\ \A t \in Callers :
          (Returned(t) /\ call[t].fn = "create_grpc_channel") =>
              /\ \A op \in {"GET", "retry_options", "access_secret_version", "POST",
                             "SslCredentials", "secure_channel"} :
                     Len(Events(t, {op})) = 1
              /\ LET secret == decode(Events(t, {"access_secret_version"})[1].answer.data)
                     token == Events(t, {"POST"})[1].answer.token
                     channel == outcome[t].val
                     cc == channel.credentials.call_credentials
                     keys == {cc[i].value : i \in {k \in 1..Len(cc) : cc[k].key = "x-api-key"}}
                     bearers == {cc[i].value :
                                   i \in {k \in 1..Len(cc) : cc[k].key = "authorization"}}
                 IN  /\ channel = Events(t, {"secure_channel"})[1].channel
                     /\ channel.credentials = Events(t, {"SslCredentials"})[1].result
                     /\ channel.options =
                           << <<"grpc.service_config",
                                json_dumps(Events(t, {"retry_options"})[1].result)>> >>
                     /\ keys = IF Truthy(secret) THEN {secret} ELSE {}
                     /\ bearers = IF Truthy(token) THEN {"Bearer " \o token} ELSE {}
    /\ \A t \in Callers :
          Idle(t) => call[t] = [fn |-> None] /\ trace[t] = <<>>
    /\ cache \in {<<>>} \cup {<<c>> : c \in 1..created}

\* Both callers have returned from interleaved calls with the same input, the
\* second served by the memoized client, and their channels carry different
\* credentials because their token exchanges were answered differently.
C17_Witness ==
    /\ Returned(1) /\ Returned(2)
    /\ call[1] = call[2]
    /\ call[1].fn = "create_grpc_channel"
    /\ outcome[1].val.credentials # outcome[2].val.credentials
    /\ Events(1, {"POST"})[1].answer.token # Events(2, {"POST"})[1].answer.token
    /\ \E i \in 1..Len(trace[2]) :
          trace[2][i].op = "_gcp_secret_client" /\ trace[2][i].hit

=============================================================================
